---- MODULE Spec2Model ----
(***************************************************************************)
(* Model of the document chunker (lib/chunking.ts), of the in-memory      *)
(* vector search service (lib/embeddings.ts) and of the upload and search *)
(* routes that use them.                                                   *)
(*                                                                         *)
(* Strings are sequences of one-character strings; positions are the      *)
(* 0-based offsets JavaScript uses.  Numbers that JavaScript computes in  *)
(* floating point are kept exact: a similarity is a record that is either *)
(* NaN or the real number sgn * sqrt(num / den).                          *)
(***************************************************************************)
EXTENDS Integers, Sequences, FiniteSets, TLC

VARIABLES
    \* ---- DocumentChunker ----
    config,            \* this.config
    ocrResults,        \* argument of chunkDocument: sequence of [text, pageNumber]
    pc,                \* position inside chunkDocument / chunkPage / slidingWindowChunk
    chunks,            \* chunkDocument: chunks
    globalChunkIndex,  \* chunkDocument: globalChunkIndex
    pageNo,            \* chunkDocument: position of the for-of loop over fullDocument
    pageChunks,        \* chunkPage: chunks
    structuralChunks,  \* chunkPage: structuralChunks
    secNo,             \* chunkPage: position of the for-of loop over structuralChunks
    chunkIndex,        \* chunkPage: chunkIndex
    slidingChunks,     \* slidingWindowChunk: chunks
    swChunkIndex,      \* slidingWindowChunk: chunkIndex
    startPos,          \* slidingWindowChunk: startPos
    window,            \* observer: the last iteration of the while loop
    mergeNo,           \* mergeSmallChunks: position of the for loop in chunks
    mergedChunks,      \* mergeSmallChunks: mergedChunks
    currentMerge,      \* mergeSmallChunks: currentMerge
    \* ---- VectorSearchService ----
    embeddings,        \* this.embeddings: the Map as its entries in insertion order
    search,            \* one call of search(): position, arguments, result
    adding,            \* one call of addChunk(): position, argument
    loading,           \* observer: what the constructor read and whether it raised
    indexing,          \* one call of indexChunks(): position, argument, results
    uploadEmbeddings,  \* this.embeddings of the upload route's VectorSearchService
    removing,          \* observer: the last removeChunk() and what it returned
    response           \* observer: what the search endpoint answered without a search

mergeVars == <<mergeNo, mergedChunks, currentMerge>>

chunkerVars == <<config, ocrResults, pc, chunks, globalChunkIndex, pageNo,
                 pageChunks, structuralChunks, secNo, chunkIndex,
                 slidingChunks, swChunkIndex, startPos, window, mergeVars>>

searchVars == <<embeddings, search, adding, loading, indexing, uploadEmbeddings,
                removing, response>>

vars == <<chunkerVars, searchVars>>

-----------------------------------------------------------------------------
(* Bounds of the model *)
MaxChunkSize == 5
MaxOverlap == 3
MaxMinChunkSize == 4
MaxLines == 3
MaxPages == 2
Dimension == 2
MaxCorpus == 2
MaxTopK == 2
MaxBatch == 2
MaxRanked == 4
MaxMerge == 3

-----------------------------------------------------------------------------
(* JavaScript values and string primitives *)

\* undefined where a string is expected (no string holds this element)
Undefined == <<"undefined">>

\* a numeric property that may be absent
Absent == [defined |-> FALSE, value |-> 0]
Number(n) == [defined |-> TRUE, value |-> n]

Max(a, b) == IF a >= b THEN a ELSE b
Min(a, b) == IF a <= b THEN a ELSE b

\* a <= b of JavaScript for a number or undefined on the left:
\* undefined converts to NaN and every comparison with NaN is false
LessEqJS(a, b) == IF a.defined THEN a.value <= b ELSE FALSE

\* obj.length of an object literal: undefined when it has no such property
LengthProperty(obj) == IF "length" \in DOMAIN obj THEN Number(obj.length) ELSE Absent

WhiteSpace == {" ", "\n"}

RECURSIVE TrimStart(_)
TrimStart(s) ==
    IF s # <<>> /\ Head(s) \in WhiteSpace THEN TrimStart(Tail(s)) ELSE s

RECURSIVE TrimEnd(_)
TrimEnd(s) ==
    IF s # <<>> /\ s[Len(s)] \in WhiteSpace
    THEN TrimEnd(SubSeq(s, 1, Len(s) - 1)) ELSE s

\* String.prototype.trim
Trim(s) == TrimEnd(TrimStart(s))

\* String.prototype.substring(a, b): arguments clamped to [0, length], swapped when a > b
Substring(s, a, b) ==
    LET ca == Max(0, Min(a, Len(s)))
        cb == Max(0, Min(b, Len(s)))
    IN  SubSeq(s, Min(ca, cb) + 1, Max(ca, cb))

\* text.split('\n')
RECURSIVE SplitLines(_, _)
SplitLines(text, cur) ==
    IF text = <<>> THEN <<cur>>
    ELSE IF Head(text) = "\n" THEN <<cur>> \o SplitLines(Tail(text), <<>>)
    ELSE SplitLines(Tail(text), Append(cur, Head(text)))

Split(text) == SplitLines(text, <<>>)

\* text.indexOf(pat, from): first offset >= from at which pat occurs, -1 if none
IndexOf(text, pat, from) ==
    LET f == Max(0, Min(from, Len(text)))
        hits == {i \in f..(Len(text) - Len(pat)) :
                    SubSeq(text, i + 1, i + Len(pat)) = pat}
    IN  IF hits = {} THEN -1
        ELSE CHOOSE i \in hits : \A j \in hits : i <= j

\* content.lastIndexOf(ch, from): last offset <= from at which the character ch occurs, -1 if none
LastIndexOf(content, ch, from) ==
    LET hits == {i \in 0..Min(from, Len(content) - 1) : content[i + 1] = ch}
    IN  IF hits = {} THEN -1
        ELSE CHOOSE i \in hits : \A j \in hits : i >= j

\* content.split(/\s+/).filter(word => word.length > 0).length
WordCount(content) ==
    Cardinality({i \in 1..Len(content) :
                    /\ content[i] \notin WhiteSpace
                    /\ (i = 1 \/ content[i - 1] \in WhiteSpace)})

\* number of leading '#' characters of a line
RECURSIVE LeadingHashes(_)
LeadingHashes(line) ==
    IF line # <<>> /\ Head(line) = "#" THEN 1 + LeadingHashes(Tail(line)) ELSE 0

NoMatch == <<"nomatch">>

\* line.match(/^(#{1,6})\s+(.+)$/): the text of group 2, or NoMatch.
\* \s+ is greedy and gives one character back when nothing is left for (.+)
HeaderMatch(line) ==
    LET h    == LeadingHashes(line)
        rest == SubSeq(line, h + 1, Len(line))
        body == TrimStart(rest)
        w    == Len(rest) - Len(body)
    IN  IF h < 1 \/ h > 6 \/ w < 1 THEN NoMatch
        ELSE IF body # <<>> THEN body
        ELSE IF w >= 2 THEN <<rest[Len(rest)]>>
        ELSE NoMatch


-----------------------------------------------------------------------------
(* DocumentChunker: pure helpers *)

\* the object pushed to structuralChunks when currentContent.trim() is not empty
PushSection(acc, currentSection, currentContent, sp) ==
    IF Trim(currentContent) # <<>>
    THEN Append(acc, [content  |-> Trim(currentContent),
                      section  |-> IF currentSection # <<>> THEN currentSection ELSE Undefined,
                      startPos |-> sp,
                      endPos   |-> sp + Len(currentContent)])
    ELSE acc

\* the for loop of splitByStructure followed by "Add the last section"
RECURSIVE SplitLoop(_, _, _, _, _, _, _)
SplitLoop(text, lines, i, currentSection, currentContent, sp, acc) ==
    IF i > Len(lines)
    THEN PushSection(acc, currentSection, currentContent, sp)
    ELSE LET line == lines[i]
             headerMatch == HeaderMatch(line)
         IN  IF headerMatch # NoMatch
             THEN SplitLoop(text, lines, i + 1,
                            Trim(headerMatch),
                            line \o <<"\n">>,
                            IndexOf(text, line, sp),
                            PushSection(acc, currentSection, currentContent, sp))
             ELSE SplitLoop(text, lines, i + 1, currentSection,
                            currentContent \o line \o <<"\n">>, sp, acc)

splitByStructure(text) ==
    LET found == SplitLoop(text, Split(text), 1, <<>>, <<>>, 0, <<>>)
    IN  IF Len(found) = 0
        THEN <<[content |-> text, startPos |-> 0, endPos |-> Len(text)]>>
        ELSE found

\* structuralChunk.section (absent in the object pushed when no section was found)
SectionOf(structuralChunk) ==
    IF "section" \in DOMAIN structuralChunk THEN structuralChunk.section ELSE Undefined

DocumentId == "doc"

createChunk(content, documentId, pageNumber, idx, sectionName, startPosition, endPosition) ==
    [id          |-> documentId \o "-chunk-" \o ToString(idx),
     content     |-> content,
     sectionName |-> sectionName,
     pageNumber  |-> pageNumber,
     chunkIndex  |-> idx,
     metadata    |-> [documentId    |-> documentId,
                      startPosition |-> startPosition,
                      endPosition   |-> endPosition,
                      wordCount     |-> WordCount(content),
                      charCount     |-> Len(content)]]

\* slidingWindowChunk: the window end of the iteration that starts at sp
WindowEnd(content, sp, cfg) ==
    LET endPos == Min(sp + cfg.chunkSize, Len(content))
        lastSpace == LastIndexOf(content, " ", endPos)
    IN  IF endPos < Len(content) /\ lastSpace > sp THEN lastSpace ELSE endPos

\* (variant: every non-empty slice is emitted)
EmitsWindow_nonEmpty(chunkContent, cfg) == Len(chunkContent) >= 1

\* slidingWindowChunk: the test that decides whether the trimmed slice is emitted
EmitsWindow(chunkContent, cfg) == Len(chunkContent) >= cfg.minChunkSize

\* (variant: the next start is the window end less the overlap, without the floor)
NextStart_noFloor(sp, endPos, cfg) == endPos - cfg.overlap

\* (variant: the floor is the current start instead of the character after it)
NextStart_stay(sp, endPos, cfg) == Max(sp, endPos - cfg.overlap)

\* slidingWindowChunk: "Move start position with overlap"
NextStart(sp, endPos, cfg) == Max(sp + 1, endPos - cfg.overlap)

\* (variant: the offset inside the section is not added)
GlobalPosition_sectionOnly(globalStartPos, pos) == globalStartPos

\* slidingWindowChunk: globalStartPos + startPos, globalStartPos + endPos
GlobalPosition(globalStartPos, pos) == globalStartPos + pos

\* (variant: the test reads the length of the section's content)
SingleChunk_contentLength(structuralChunk, cfg) ==
    Len(structuralChunk.content) <= cfg.chunkSize

\* chunkPage: the test "Small enough to be a single chunk"
SingleChunk(structuralChunk, cfg) ==
    LessEqJS(LengthProperty(structuralChunk), cfg.chunkSize)

-----------------------------------------------------------------------------
(* DocumentChunker: inputs *)

\* new DocumentChunker(config): any numbers are accepted, nothing is validated
Configs ==
    [chunkSize    : 0..MaxChunkSize,
     overlap      : 0..MaxOverlap,
     minChunkSize : 0..MaxMinChunkSize,
     maxChunkSize : {MaxChunkSize}]

PageBreak == <<"\f">>

LineSet ==
    { <<"#", " ", "A">>, <<"#", " ", "B">>, <<"#", " ", "C">>,
      <<"a", "a", " ", "a">>, <<>> }

\* a document as a flat sequence of lines and page breaks
Documents ==
    {d \in UNION {[1..n -> LineSet \cup {PageBreak}] : n \in 1..MaxLines} :
        Cardinality({i \in DOMAIN d : d[i] = PageBreak}) < MaxPages}

\* lines.join('\n')
RECURSIVE JoinLines(_)
JoinLines(lines) ==
    IF lines = <<>> THEN <<>>
    ELSE IF Len(lines) = 1 THEN lines[1]
    ELSE lines[1] \o <<"\n">> \o JoinLines(Tail(lines))

\* the page texts of a document: the lines between page breaks, joined
RECURSIVE PageTexts(_, _)
PageTexts(d, cur) ==
    IF d = <<>> THEN <<JoinLines(cur)>>
    ELSE IF Head(d) = PageBreak THEN <<JoinLines(cur)>> \o PageTexts(Tail(d), <<>>)
    ELSE PageTexts(Tail(d), Append(cur, Head(d)))

\* OCRService.processPDF numbers the pages 1, 2, ...
OcrResultsOf(d) ==
    LET texts == PageTexts(d, <<>>)
    IN  [i \in 1..Len(texts) |-> [text |-> texts[i], pageNumber |-> i]]

NoWindow == [iterations |-> 0, start |-> 0, end |-> 0, sliceLen |-> 0,
             emitted |-> FALSE, contentLength |-> 0]

NoChunk == [id |-> "", content |-> ""]

NoSearch == [pc |-> "idle", query |-> "", topK |-> 0, sizeAtCall |-> 0,
             embedderCalled |-> FALSE, embedded |-> FALSE, sizeAtScan |-> 0,
             result |-> <<>>, raised |-> FALSE]

NoAdd == [pc |-> "idle", chunk |-> NoChunk]

\* a data file that does not exist
Missing == [exists |-> FALSE, parses |-> FALSE, hasChunks |-> FALSE,
            chunks |-> <<>>, totalChunks |-> 0]

NoLoad == [pc |-> "idle", corpusFile |-> Missing, singleDocFile |-> Missing,
           raised |-> FALSE]

NoIndexing == [pc |-> "idle", chunks |-> <<>>, next |-> 1, results |-> <<>>,
               failed |-> {}, before |-> <<>>]

NoRemove == [pc |-> "idle", chunkId |-> "", returned |-> FALSE]

NoResponse == [status |-> 0, results |-> <<>>, error |-> ""]

ChunkerInit ==
    /\ config \in Configs
    /\ \E d \in Documents : ocrResults = OcrResultsOf(d)
    /\ pc = "chunkDocument"
    /\ chunks = <<>>
    /\ globalChunkIndex = 0
    /\ pageNo = 1
    /\ pageChunks = <<>>
    /\ structuralChunks = <<>>
    /\ secNo = 1
    /\ chunkIndex = 0
    /\ slidingChunks = <<>>
    /\ swChunkIndex = 0
    /\ startPos = 0
    /\ window = NoWindow
    /\ mergeNo = 1
    /\ mergedChunks = <<>>
    /\ currentMerge = <<>>
    /\ embeddings = <<>>
    /\ search = NoSearch
    /\ adding = NoAdd
    /\ loading = NoLoad
    /\ indexing = NoIndexing
    /\ uploadEmbeddings = <<>>
    /\ removing = NoRemove
    /\ response = NoResponse

-----------------------------------------------------------------------------
(* DocumentChunker: steps of chunkDocument *)

\* (variant: the chunks of a page are numbered from a counter that other
\* runs advance as well)
ChunkPageCall_sharedCounter ==
    /\ pc = "chunkDocument"
    /\ pageNo <= Len(ocrResults)
    /\ structuralChunks' = splitByStructure(ocrResults[pageNo].text)
    /\ pageChunks' = <<>>
    /\ \E others \in 0..1 : chunkIndex' = globalChunkIndex + others
    /\ secNo' = 1
    /\ pc' = "chunkPage"
    /\ UNCHANGED searchVars
    /\ UNCHANGED mergeVars
    /\ UNCHANGED <<config, ocrResults, chunks, globalChunkIndex, pageNo,
                   slidingChunks, swChunkIndex, startPos, window>>

\* chunkDocument: one turn of the loop over the pages calls chunkPage,
\* which splits the page by structure
ChunkPageCall ==
    /\ pc = "chunkDocument"
    /\ pageNo <= Len(ocrResults)
    /\ structuralChunks' = splitByStructure(ocrResults[pageNo].text)
    /\ pageChunks' = <<>>
    /\ chunkIndex' = globalChunkIndex
    /\ secNo' = 1
    /\ pc' = "chunkPage"
    /\ UNCHANGED searchVars
    /\ UNCHANGED mergeVars
    /\ UNCHANGED <<config, ocrResults, chunks, globalChunkIndex, pageNo,
                   slidingChunks, swChunkIndex, startPos, window>>

\* chunkPage: one turn of the loop over the structural chunks, up to the
\* call of slidingWindowChunk in the else branch
StructuralChunkStep ==
    /\ pc = "chunkPage"
    /\ secNo <= Len(structuralChunks)
    /\ LET structuralChunk == structuralChunks[secNo]
       IN  IF SingleChunk(structuralChunk, config)
           THEN /\ pageChunks' = Append(pageChunks,
                        createChunk(structuralChunk.content, DocumentId,
                                    ocrResults[pageNo].pageNumber, chunkIndex,
                                    SectionOf(structuralChunk),
                                    structuralChunk.startPos, structuralChunk.endPos))
                /\ chunkIndex' = chunkIndex + 1
                /\ secNo' = secNo + 1
                /\ UNCHANGED <<pc, slidingChunks, swChunkIndex, startPos, window>>
           ELSE /\ pc' = "slidingWindowChunk"
                /\ slidingChunks' = <<>>
                /\ swChunkIndex' = chunkIndex
                /\ startPos' = 0
                /\ window' = [NoWindow EXCEPT !.contentLength = Len(structuralChunk.content)]
                /\ UNCHANGED <<pageChunks, chunkIndex, secNo>>
    /\ UNCHANGED searchVars
    /\ UNCHANGED mergeVars
    /\ UNCHANGED <<config, ocrResults, chunks, globalChunkIndex, pageNo, structuralChunks>>

\* slidingWindowChunk: one iteration of the while loop
SlidingWindowStep ==
    /\ pc = "slidingWindowChunk"
    /\ LET structuralChunk == structuralChunks[secNo]
           content == structuralChunk.content
           endPos == WindowEnd(content, startPos, config)
           chunkContent == Trim(Substring(content, startPos, endPos))
           emit == EmitsWindow(chunkContent, config)
       IN  /\ startPos < Len(content)
           /\ slidingChunks' =
                IF emit
                THEN Append(slidingChunks,
                        createChunk(chunkContent, DocumentId,
                                    ocrResults[pageNo].pageNumber, swChunkIndex,
                                    SectionOf(structuralChunk),
                                    GlobalPosition(structuralChunk.startPos, startPos),
                                    GlobalPosition(structuralChunk.startPos, endPos)))
                ELSE slidingChunks
           /\ swChunkIndex' = IF emit THEN swChunkIndex + 1 ELSE swChunkIndex
           /\ startPos' = NextStart(startPos, endPos, config)
           /\ window' = [iterations |-> window.iterations + 1,
                         start |-> startPos, end |-> endPos,
                         sliceLen |-> Len(chunkContent), emitted |-> emit,
                         contentLength |-> Len(content)]
    /\ UNCHANGED searchVars
    /\ UNCHANGED mergeVars
    /\ UNCHANGED <<config, ocrResults, pc, chunks, globalChunkIndex, pageNo,
                   pageChunks, structuralChunks, secNo, chunkIndex>>

\* slidingWindowChunk returns; chunkPage appends its chunks and goes to the next structural chunk
SlidingWindowReturn ==
    /\ pc = "slidingWindowChunk"
    /\ startPos >= Len(structuralChunks[secNo].content)
    /\ pageChunks' = pageChunks \o slidingChunks
    /\ chunkIndex' = chunkIndex + Len(slidingChunks)
    /\ secNo' = secNo + 1
    /\ pc' = "chunkPage"
    /\ UNCHANGED searchVars
    /\ UNCHANGED mergeVars
    /\ UNCHANGED <<config, ocrResults, chunks, globalChunkIndex, pageNo,
                   structuralChunks, slidingChunks, swChunkIndex, startPos, window>>

\* (variant: the global index is not advanced by the page's chunks)
ChunkPageReturn_resetIndex ==
    /\ pc = "chunkPage"
    /\ secNo > Len(structuralChunks)
    /\ chunks' = chunks \o pageChunks
    /\ globalChunkIndex' = 0
    /\ pageNo' = pageNo + 1
    /\ pc' = "chunkDocument"
    /\ UNCHANGED searchVars
    /\ UNCHANGED mergeVars
    /\ UNCHANGED <<config, ocrResults, pageChunks, structuralChunks, secNo,
                   chunkIndex, slidingChunks, swChunkIndex, startPos, window>>

\* chunkPage returns; chunkDocument appends the page's chunks and advances the global index
ChunkPageReturn ==
    /\ pc = "chunkPage"
    /\ secNo > Len(structuralChunks)
    /\ chunks' = chunks \o pageChunks
    /\ globalChunkIndex' = globalChunkIndex + Len(pageChunks)
    /\ pageNo' = pageNo + 1
    /\ pc' = "chunkDocument"
    /\ UNCHANGED searchVars
    /\ UNCHANGED mergeVars
    /\ UNCHANGED <<config, ocrResults, pageChunks, structuralChunks, secNo,
                   chunkIndex, slidingChunks, swChunkIndex, startPos, window>>

\* chunkDocument returns chunks
ChunkDocumentReturn ==
    /\ pc = "chunkDocument"
    /\ pageNo > Len(ocrResults)
    /\ pc' = "done"
    /\ UNCHANGED searchVars
    /\ UNCHANGED mergeVars
    /\ UNCHANGED <<config, ocrResults, chunks, globalChunkIndex, pageNo,
                   pageChunks, structuralChunks, secNo, chunkIndex,
                   slidingChunks, swChunkIndex, startPos, window>>

ChunkerNext ==
    \/ ChunkPageCall
    \/ StructuralChunkStep
    \/ SlidingWindowStep
    \/ SlidingWindowReturn
    \/ ChunkPageReturn
    \/ ChunkDocumentReturn

ChunkerSpec == ChunkerInit /\ [][ChunkerNext]_vars

-----------------------------------------------------------------------------
(* JavaScript numbers of the similarity computation, kept exact *)

\* NaN, or the real number sgn * sqrt(num / den) with den > 0
NaN == [nan |-> TRUE, sgn |-> 0, num |-> 0, den |-> 1]
Real(sgn, num, den) == [nan |-> FALSE, sgn |-> sgn, num |-> num, den |-> den]
Zero == Real(0, 0, 1)

Sign(n) == IF n > 0 THEN 1 ELSE IF n < 0 THEN -1 ELSE 0

\* x < y for two numbers that are not NaN
LessThan(x, y) ==
    IF x.sgn # y.sgn THEN x.sgn < y.sgn
    ELSE IF x.sgn = 1 THEN x.num * y.den < y.num * x.den
    ELSE IF x.sgn = -1 THEN x.num * y.den > y.num * x.den
    ELSE FALSE

\* (variant: the score is the similarity itself)
MathMax0_identity(x) == x

\* Math.max(0, x): NaN when x is NaN
MathMax0(x) == IF x.nan THEN NaN ELSE IF x.sgn < 0 THEN Zero ELSE x

\* 0 <= x <= 1
InUnitInterval(x) == ~x.nan /\ x.sgn >= 0 /\ x.num <= x.den

-----------------------------------------------------------------------------
(* VectorSearchService: pure helpers *)

\* a stored vector: a number[] or, for a corpus item without embedding, undefined
Vector(v) == [defined |-> TRUE, v |-> v]
UndefinedVector == [defined |-> FALSE, v |-> <<>>]

RECURSIVE SumTo(_, _)
SumTo(f, n) == IF n = 0 THEN 0 ELSE f[n] + SumTo(f, n - 1)

\* reading vec2[i] gives undefined for some i below vec1.length
ReadsPastEnd(vec1, vec2) == Len(vec2) < Len(vec1)

\* cosineSimilarity(vec1, vec2) for arrays: the loop runs over vec1.length
\* components; an undefined component makes every sum NaN; 0 / 0 is NaN
cosineSimilarity(vec1, vec2) ==
    IF ReadsPastEnd(vec1, vec2) THEN NaN
    ELSE LET n == Len(vec1)
             dotProduct == SumTo([i \in 1..n |-> vec1[i] * vec2[i]], n)
             norm1 == SumTo([i \in 1..n |-> vec1[i] * vec1[i]], n)
             norm2 == SumTo([i \in 1..n |-> vec2[i] * vec2[i]], n)
         IN  IF norm1 * norm2 = 0 THEN NaN
             ELSE Real(Sign(dotProduct), dotProduct * dotProduct, norm1 * norm2)

\* calculateDistance(vec1, vec2) for arrays: the square root of sq, or NaN
calculateDistance(vec1, vec2) ==
    IF ReadsPastEnd(vec1, vec2) THEN [nan |-> TRUE, sq |-> 0]
    ELSE LET n == Len(vec1)
         IN  [nan |-> FALSE,
              sq  |-> SumTo([i \in 1..n |-> (vec1[i] - vec2[i]) * (vec1[i] - vec2[i])], n)]

\* Map.prototype.set: an existing key keeps its place in the iteration order
MapSet(map, key, value) ==
    IF \E i \in 1..Len(map) : map[i].id = key
    THEN [i \in 1..Len(map) |->
            IF map[i].id = key THEN [id |-> key] @@ value ELSE map[i]]
    ELSE Append(map, [id |-> key] @@ value)

\* Map.prototype.delete
MapDelete(map, key) == SelectSeq(map, LAMBDA e : e.id # key)

MapHas(map, key) == \E i \in 1..Len(map) : map[i].id = key

\* Map.prototype.get
MapGet(map, key) == map[CHOOSE i \in 1..Len(map) : map[i].id = key]

\* the comparator (a, b) => b.score - a.score says that a must come after b;
\* a NaN difference counts as 0
ComesAfter(a, b) == ~a.score.nan /\ ~b.score.nan /\ LessThan(a.score, b.score)

\* the comparator orders the elements consistently: no NaN score, or all
\* other scores equal
ConsistentComparator(sims) ==
    \/ \A i \in 1..Len(sims) : ~sims[i].score.nan
    \/ \A i, j \in 1..Len(sims) : ~ComesAfter(sims[i], sims[j])

\* insertion of x behind every element it does not have to precede
RECURSIVE InsertStable(_, _)
InsertStable(sorted, x) ==
    IF sorted = <<>> THEN <<x>>
    ELSE IF ComesAfter(Head(sorted), x) THEN <<x>> \o sorted
    ELSE <<Head(sorted)>> \o InsertStable(Tail(sorted), x)

RECURSIVE StableSort(_)
StableSort(sims) ==
    IF sims = <<>> THEN <<>>
    ELSE InsertStable(StableSort(SubSeq(sims, 1, Len(sims) - 1)), sims[Len(sims)])

Reorderings(sims) ==
    {[i \in 1..Len(sims) |-> sims[f[i]]] :
        f \in {g \in [1..Len(sims) -> 1..Len(sims)] :
                  \A i, j \in 1..Len(sims) : g[i] = g[j] => i = j}}

\* Array.prototype.sort with the comparator of search: a stable sort; with an
\* inconsistent comparator the order is implementation-defined
SortOutcomes(sims) ==
    IF ConsistentComparator(sims) THEN {StableSort(sims)} ELSE Reorderings(sims)

\* the loop of search over this.embeddings: one similarity per entry
Similarities(map, queryVector) ==
    [i \in 1..Len(map) |->
        [chunkId  |-> map[i].id,
         score    |-> MathMax0(cosineSimilarity(queryVector, map[i].vector.v)),
         distance |-> calculateDistance(queryVector, map[i].vector.v)]]

\* cosineSimilarity reads vec2[0] of an undefined vec2: a TypeError
ScanThrows(map) == \E i \in 1..Len(map) : ~map[i].vector.defined

\* similarities.slice(0, topK)
Slice(sims, topK) == SubSeq(sims, 1, Min(topK, Len(sims)))

\* topResults.map(...): the SearchResult objects
SearchResults(map, topResults) ==
    [i \in 1..Len(topResults) |->
        [chunk    |-> MapGet(map, topResults[i].chunkId).chunk,
         score    |-> topResults[i].score,
         distance |-> topResults[i].distance]]

\* chunks.find(c => c.id === chunkId): the first chunk of the batch with that id
Find(batch, chunkId) ==
    batch[CHOOSE i \in 1..Len(batch) :
              /\ batch[i].id = chunkId
              /\ \A j \in 1..Len(batch) : batch[j].id = chunkId => i <= j]

\* indexChunks: the loop over embeddingResults, one Map.set per result
RECURSIVE StoreResults(_, _, _)
StoreResults(map, batch, embeddingResults) ==
    IF embeddingResults = <<>> THEN map
    ELSE LET result == Head(embeddingResults)
         IN  StoreResults(MapSet(map, result.chunkId,
                                 [vector |-> Vector(result.vector),
                                  chunk  |-> Find(batch, result.chunkId)]),
                          batch, Tail(embeddingResults))

-----------------------------------------------------------------------------
(* VectorSearchService: inputs *)

Ids == {"c1", "c2", "c3"}

Texts == {"q1", "q2"}

\* EmbeddingService.generateEmbedding: a deterministic vector of the
\* configured dimension and of non-zero magnitude for each text
Embed(text) ==
    IF text = "q1" THEN [i \in 1..Dimension |-> IF i = 1 THEN 1 ELSE 0]
    ELSE [i \in 1..Dimension |-> 1]

\* the embedding of a corpus item: any array of numbers, or none
CorpusEmbeddings ==
    { Vector([i \in 1..Dimension |-> 0]),
      Vector([i \in 1..Dimension |-> IF i = 1 THEN 1 ELSE 0]),
      Vector([i \in 1..Dimension |-> IF i = 1 THEN 0 ELSE 1]),
      Vector([i \in 1..Dimension |-> 1]),
      Vector([i \in 1..Dimension |-> -1]),
      Vector([i \in 1..(Dimension - 1) |-> 1]),
      UndefinedVector }

CorpusItems ==
    [id : Ids, content : {"q1"}, embedding : CorpusEmbeddings]

\* data.chunks of the corpus file that is read
Corpora == UNION {[1..n -> CorpusItems] : n \in 0..MaxCorpus}

\* loadPrecomputedData: the loop over data.chunks
RECURSIVE LoadChunks(_, _)
LoadChunks(map, dataChunks) ==
    IF dataChunks = <<>> THEN map
    ELSE LET chunkData == Head(dataChunks)
             chunk == [id |-> chunkData.id, content |-> chunkData.content]
         IN  LoadChunks(MapSet(map, chunkData.id,
                               [vector |-> chunkData.embedding, chunk |-> chunk]),
                        Tail(dataChunks))

IdleChunker ==
    /\ config = [chunkSize |-> MaxChunkSize, overlap |-> 0,
                 minChunkSize |-> 0, maxChunkSize |-> MaxChunkSize]
    /\ ocrResults = <<>>
    /\ pc = "idle"
    /\ chunks = <<>>
    /\ globalChunkIndex = 0
    /\ pageNo = 1
    /\ pageChunks = <<>>
    /\ structuralChunks = <<>>
    /\ secNo = 1
    /\ chunkIndex = 0
    /\ slidingChunks = <<>>
    /\ swChunkIndex = 0
    /\ startPos = 0
    /\ window = NoWindow
    /\ mergeNo = 1
    /\ mergedChunks = <<>>
    /\ currentMerge = <<>>

\* a data file that exists: its text is not JSON, or it parses to an object
\* without a chunks array, or to one with data.chunks and metadata.totalChunks
Unreadable == [exists |-> TRUE, parses |-> FALSE, hasChunks |-> FALSE,
               chunks |-> <<>>, totalChunks |-> 0]

NoChunksProperty == [exists |-> TRUE, parses |-> TRUE, hasChunks |-> FALSE,
                     chunks |-> <<>>, totalChunks |-> 0]

DataFile(dataChunks, totalChunks) ==
    [exists |-> TRUE, parses |-> TRUE, hasChunks |-> TRUE,
     chunks |-> dataChunks, totalChunks |-> totalChunks]

\* metadata.totalChunks is the number of chunks of the file or, in a file
\* whose metadata is off, one more
Files ==
    {Missing, Unreadable, NoChunksProperty}
        \cup {DataFile(dataChunks, Len(dataChunks) + n) :
                 dataChunks \in Corpora, n \in {0, 1}}

\* the single-document file where the corpus file exists: it is not opened
UnopenedFiles ==
    {Missing, DataFile(<<[id |-> "c1", content |-> "q1",
                         embedding |-> Vector([i \in 1..Dimension |-> 1])]>>, 1)}

\* (variant: the loop stops after the first item)
LoadData_firstOnly(file) ==
    IF ~file.parses THEN [threw |-> TRUE, map |-> <<>>]
    ELSE IF ~file.hasChunks \/ Len(file.chunks) = 0 THEN [threw |-> FALSE, map |-> <<>>]
    ELSE [threw |-> FALSE, map |-> LoadChunks(<<>>, SubSeq(file.chunks, 1, 1))]

\* loadPrecomputedData from readFileSync on: JSON.parse throws on a text that
\* is not JSON; no chunks or an empty chunks array returns early; otherwise
\* the loop stores every item
LoadData(file) ==
    IF ~file.parses THEN [threw |-> TRUE, map |-> <<>>]
    ELSE IF ~file.hasChunks \/ Len(file.chunks) = 0 THEN [threw |-> FALSE, map |-> <<>>]
    ELSE [threw |-> FALSE, map |-> LoadChunks(<<>>, file.chunks)]

\* the file loadPrecomputedData opens: the first one of the two that exists
OpenedFile(corpusFile, singleDocFile) ==
    IF corpusFile.exists THEN corpusFile
    ELSE IF singleDocFile.exists THEN singleDocFile
    ELSE Missing

\* (variant: no try/catch around the load)
loadPrecomputedData_noCatch(corpusFile, singleDocFile) ==
    LET file == OpenedFile(corpusFile, singleDocFile)
    IN  IF ~file.exists THEN [embeddings |-> <<>>, raised |-> FALSE]
        ELSE [embeddings |-> LoadData(file).map, raised |-> LoadData(file).threw]

\* loadPrecomputedData: whatever is thrown inside is caught and logged
loadPrecomputedData(corpusFile, singleDocFile) ==
    LET file == OpenedFile(corpusFile, singleDocFile)
    IN  IF ~file.exists THEN [embeddings |-> <<>>, raised |-> FALSE]
        ELSE [embeddings |-> LoadData(file).map, raised |-> FALSE]

\* getIndexedCount()
getIndexedCount(map) == Len(map)

\* getIndexStats(): totalChunks is the number of values of the Map; reading
\* the length of an undefined first vector throws
getIndexStats(map) ==
    [totalChunks |-> Len(map),
     dimension   |-> IF Len(map) > 0 /\ map[1].vector.defined
                     THEN Len(map[1].vector.v) ELSE 0,
     threw       |-> Len(map) > 0 /\ ~map[1].vector.defined]

\* new VectorSearchService() with the two data files as they are on disk
Construct(corpusFile, singleDocFile) ==
    LET loaded == loadPrecomputedData(corpusFile, singleDocFile)
    IN  /\ embeddings = loaded.embeddings
        /\ loading = [pc |-> "constructed", corpusFile |-> corpusFile,
                      singleDocFile |-> singleDocFile, raised |-> loaded.raised]

\* new VectorSearchService(): the index after loadPrecomputedData
SearchInit ==
    /\ IdleChunker
    /\ \E corpusFile \in Files :
          \E singleDocFile \in (IF corpusFile.exists THEN UnopenedFiles ELSE Files) :
             Construct(corpusFile, singleDocFile)
    /\ search = NoSearch
    /\ adding = NoAdd
    /\ indexing = NoIndexing
    /\ uploadEmbeddings = <<>>
    /\ removing = NoRemove
    /\ response = NoResponse

-----------------------------------------------------------------------------
(* VectorSearchService: operations *)

\* The value a search has returned is on record in the state that follows the
\* return and is dropped by the next step of any other operation.
Settled(s) == IF s.pc = "returned" THEN NoSearch ELSE s

\* The same for an indexChunks call that has returned.
Returned(x) == IF x.pc = "returned" THEN NoIndexing ELSE x

\* (variant: no early return on an empty index)
SearchCall_noEmptyCheck(query, topK) ==
    /\ search.pc # "embedding"
    /\ search' = [NoSearch EXCEPT !.pc = "embedding", !.query = query,
                                   !.topK = topK,
                                   !.sizeAtCall = Len(embeddings),
                                   !.embedderCalled = TRUE]
    /\ UNCHANGED <<embeddings, adding>>
    /\ loading' = NoLoad
    /\ removing' = NoRemove
    /\ response' = NoResponse
    /\ indexing' = Returned(indexing)
    /\ UNCHANGED uploadEmbeddings
    /\ UNCHANGED chunkerVars

\* search(query, topK) up to its first await: an empty index returns [] at
\* once, otherwise the embedding of the query is requested
SearchCall(query, topK) ==
    /\ search.pc # "embedding"
    /\ IF Len(embeddings) = 0
       THEN search' = [NoSearch EXCEPT !.pc = "returned", !.query = query,
                                       !.topK = topK, !.result = <<>>]
       ELSE search' = [NoSearch EXCEPT !.pc = "embedding", !.query = query,
                                       !.topK = topK,
                                       !.sizeAtCall = Len(embeddings),
                                       !.embedderCalled = TRUE]
    /\ UNCHANGED <<embeddings, adding>>
    /\ loading' = NoLoad
    /\ removing' = NoRemove
    /\ response' = NoResponse
    /\ indexing' = Returned(indexing)
    /\ UNCHANGED uploadEmbeddings
    /\ UNCHANGED chunkerVars

\* (variant: the scan suspends before the results are returned and a
\* removeChunk runs in between)
SearchScan_suspends ==
    /\ search.pc = "embedding"
    /\ ~ScanThrows(embeddings)
    /\ \E sorted \in SortOutcomes(Similarities(embeddings, Embed(search.query))) :
          search' = [search EXCEPT
                       !.pc = "returned", !.embedded = TRUE,
                       !.sizeAtScan = Len(embeddings),
                       !.result = SearchResults(embeddings, Slice(sorted, search.topK))]
    /\ \E chunkId \in Ids : embeddings' = MapDelete(embeddings, chunkId)
    /\ UNCHANGED adding
    /\ loading' = NoLoad
    /\ removing' = NoRemove
    /\ response' = NoResponse
    /\ indexing' = Returned(indexing)
    /\ UNCHANGED uploadEmbeddings
    /\ UNCHANGED chunkerVars

\* the rest of search once the embedding has resolved: scan, sort, slice, map
SearchScan ==
    /\ search.pc = "embedding"
    /\ LET queryVector == Embed(search.query)
       IN  IF ScanThrows(embeddings)
           THEN search' = [search EXCEPT !.pc = "returned", !.embedded = TRUE,
                                         !.sizeAtScan = Len(embeddings),
                                         !.result = <<>>]
           ELSE \E sorted \in SortOutcomes(Similarities(embeddings, queryVector)) :
                   search' = [search EXCEPT
                                !.pc = "returned", !.embedded = TRUE,
                                !.sizeAtScan = Len(embeddings),
                                !.result = SearchResults(embeddings,
                                                         Slice(sorted, search.topK))]
    /\ UNCHANGED <<embeddings, adding>>
    /\ loading' = NoLoad
    /\ removing' = NoRemove
    /\ response' = NoResponse
    /\ indexing' = Returned(indexing)
    /\ UNCHANGED uploadEmbeddings
    /\ UNCHANGED chunkerVars

\* (variant: the rejection of the embedding reaches the caller of search)
SearchEmbeddingFails_rethrows ==
    /\ search.pc = "embedding"
    /\ search' = [search EXCEPT !.pc = "returned", !.result = <<>>, !.raised = TRUE]
    /\ UNCHANGED <<embeddings, adding>>
    /\ loading' = NoLoad
    /\ removing' = NoRemove
    /\ response' = NoResponse
    /\ indexing' = Returned(indexing)
    /\ UNCHANGED uploadEmbeddings
    /\ UNCHANGED chunkerVars

\* the embedding of the query rejects: the catch block of search returns []
SearchEmbeddingFails ==
    /\ search.pc = "embedding"
    /\ search' = [search EXCEPT !.pc = "returned", !.result = <<>>]
    /\ UNCHANGED <<embeddings, adding>>
    /\ loading' = NoLoad
    /\ removing' = NoRemove
    /\ response' = NoResponse
    /\ indexing' = Returned(indexing)
    /\ UNCHANGED uploadEmbeddings
    /\ UNCHANGED chunkerVars

\* addChunk(chunk) up to its await
AddChunkCall(chunk) ==
    /\ adding.pc = "idle"
    /\ adding' = [pc |-> "embedding", chunk |-> chunk]
    /\ search' = Settled(search)
    /\ UNCHANGED embeddings
    /\ loading' = NoLoad
    /\ removing' = NoRemove
    /\ response' = NoResponse
    /\ indexing' = Returned(indexing)
    /\ UNCHANGED uploadEmbeddings
    /\ UNCHANGED chunkerVars

\* the rest of addChunk once the embedding has resolved
AddChunkSet ==
    /\ adding.pc = "embedding"
    /\ embeddings' = MapSet(embeddings, adding.chunk.id,
                            [vector |-> Vector(Embed(adding.chunk.content)),
                             chunk  |-> adding.chunk])
    /\ adding' = NoAdd
    /\ search' = Settled(search)
    /\ loading' = NoLoad
    /\ removing' = NoRemove
    /\ response' = NoResponse
    /\ indexing' = Returned(indexing)
    /\ UNCHANGED uploadEmbeddings
    /\ UNCHANGED chunkerVars

\* the embedding rejects: addChunk rejects and the index is not touched
AddChunkEmbeddingFails ==
    /\ adding.pc = "embedding"
    /\ adding' = NoAdd
    /\ search' = Settled(search)
    /\ UNCHANGED embeddings
    /\ loading' = NoLoad
    /\ removing' = NoRemove
    /\ response' = NoResponse
    /\ indexing' = Returned(indexing)
    /\ UNCHANGED uploadEmbeddings
    /\ UNCHANGED chunkerVars

\* (variant: removeChunk answers true whatever the index held)
removeChunk_alwaysTrue(map, chunkId) ==
    [embeddings |-> MapDelete(map, chunkId), returned |-> TRUE]

\* removeChunk(chunkId): Map.prototype.delete removes the entry of the key
\* and answers whether there was one
removeChunk(map, chunkId) ==
    [embeddings |-> MapDelete(map, chunkId), returned |-> MapHas(map, chunkId)]

\* a call of removeChunk(chunkId)
RemoveChunk(chunkId) ==
    /\ embeddings' = removeChunk(embeddings, chunkId).embeddings
    /\ search' = Settled(search)
    /\ UNCHANGED adding
    /\ loading' = NoLoad
    /\ removing' = [pc |-> "returned", chunkId |-> chunkId,
                    returned |-> removeChunk(embeddings, chunkId).returned]
    /\ response' = NoResponse
    /\ indexing' = Returned(indexing)
    /\ UNCHANGED uploadEmbeddings
    /\ UNCHANGED chunkerVars

\* clearIndex()
ClearIndex ==
    /\ embeddings' = <<>>
    /\ search' = Settled(search)
    /\ UNCHANGED adding
    /\ loading' = NoLoad
    /\ removing' = NoRemove
    /\ response' = NoResponse
    /\ indexing' = Returned(indexing)
    /\ UNCHANGED uploadEmbeddings
    /\ UNCHANGED chunkerVars

SearchNext ==
    \/ \E query \in Texts, topK \in 0..MaxTopK : SearchCall(query, topK)
    \/ SearchScan
    \/ SearchEmbeddingFails
    \/ \E id \in Ids, content \in Texts : AddChunkCall([id |-> id, content |-> content])
    \/ AddChunkSet
    \/ AddChunkEmbeddingFails
    \/ \E chunkId \in Ids : RemoveChunk(chunkId)
    \/ ClearIndex

SearchSpec == SearchInit /\ [][SearchNext]_vars

-----------------------------------------------------------------------------
(* VectorSearchService: indexChunks next to the other operations *)

\* the chunk ids in use next to indexChunks
IndexIds == {"c1", "c2"}

\* the chunks a caller passes to addChunk or indexChunks
InsertChunks == [id : IndexIds, content : Texts]

\* the batches passed to indexChunks
Batches == UNION {[1..n -> InsertChunks] : n \in 0..MaxBatch}

\* indexChunks(chunks) up to the first await inside generateEmbeddings
IndexChunksCall(batch) ==
    /\ indexing.pc # "embedding"
    /\ indexing' = [NoIndexing EXCEPT !.pc = "embedding", !.chunks = batch]
    /\ search' = Settled(search)
    /\ loading' = NoLoad
    /\ removing' = NoRemove
    /\ response' = NoResponse
    /\ UNCHANGED <<embeddings, adding, uploadEmbeddings>>
    /\ UNCHANGED chunkerVars

\* (variant: each chunk is stored as soon as its embedding resolves)
IndexChunksEmbed_storesAtOnce ==
    /\ indexing.pc = "embedding"
    /\ indexing.next <= Len(indexing.chunks)
    /\ LET chunk == indexing.chunks[indexing.next]
       IN  /\ indexing' = [indexing EXCEPT
                             !.next = indexing.next + 1,
                             !.results = Append(indexing.results,
                                                [chunkId |-> chunk.id,
                                                 vector  |-> Embed(chunk.content)])]
           /\ embeddings' = MapSet(embeddings, chunk.id,
                                   [vector |-> Vector(Embed(chunk.content)),
                                    chunk |-> chunk])
    /\ search' = Settled(search)
    /\ loading' = NoLoad
    /\ removing' = NoRemove
    /\ response' = NoResponse
    /\ UNCHANGED <<adding, uploadEmbeddings>>
    /\ UNCHANGED chunkerVars

\* generateEmbeddings: the embedding of the next chunk resolves and its
\* result is pushed
IndexChunksEmbed ==
    /\ indexing.pc = "embedding"
    /\ indexing.next <= Len(indexing.chunks)
    /\ LET chunk == indexing.chunks[indexing.next]
       IN  indexing' = [indexing EXCEPT
                          !.next = indexing.next + 1,
                          !.results = Append(indexing.results,
                                             [chunkId |-> chunk.id,
                                              vector  |-> Embed(chunk.content)])]
    /\ search' = Settled(search)
    /\ loading' = NoLoad
    /\ removing' = NoRemove
    /\ response' = NoResponse
    /\ UNCHANGED <<embeddings, adding, uploadEmbeddings>>
    /\ UNCHANGED chunkerVars

\* generateEmbeddings: the embedding of the next chunk rejects; the catch
\* block logs it and the loop goes on
IndexChunksEmbedFails ==
    /\ indexing.pc = "embedding"
    /\ indexing.next <= Len(indexing.chunks)
    /\ indexing' = [indexing EXCEPT !.next = indexing.next + 1,
                                    !.failed = indexing.failed \cup {indexing.next}]
    /\ search' = Settled(search)
    /\ loading' = NoLoad
    /\ removing' = NoRemove
    /\ response' = NoResponse
    /\ UNCHANGED <<embeddings, adding, uploadEmbeddings>>
    /\ UNCHANGED chunkerVars

\* generateEmbeddings has returned: indexChunks stores every result and returns
IndexChunksStore ==
    /\ indexing.pc = "embedding"
    /\ indexing.next > Len(indexing.chunks)
    /\ embeddings' = StoreResults(embeddings, indexing.chunks, indexing.results)
    /\ indexing' = [indexing EXCEPT !.pc = "returned", !.before = embeddings]
    /\ search' = Settled(search)
    /\ loading' = NoLoad
    /\ removing' = NoRemove
    /\ response' = NoResponse
    /\ UNCHANGED <<adding, uploadEmbeddings>>
    /\ UNCHANGED chunkerVars

\* the corpus the index is loaded from: items with an embedding of the
\* configured dimension
IndexCorpora ==
    UNION {[1..n -> [id : IndexIds, content : {"q1"},
                     embedding : {Vector(Embed(t)) : t \in Texts}]] : n \in 0..MaxCorpus}

IndexInit ==
    /\ IdleChunker
    /\ \E dataChunks \in IndexCorpora :
          Construct(DataFile(dataChunks, Len(dataChunks)), Missing)
    /\ search = NoSearch
    /\ adding = NoAdd
    /\ indexing = NoIndexing
    /\ uploadEmbeddings = <<>>
    /\ removing = NoRemove
    /\ response = NoResponse

\* one insert operation, addChunk or indexChunks, is in flight at a time;
\* searches and removals interleave with it
IndexNext ==
    \/ \E batch \in Batches : adding.pc = "idle" /\ IndexChunksCall(batch)
    \/ IndexChunksEmbed
    \/ IndexChunksEmbedFails
    \/ IndexChunksStore
    \/ \E chunk \in InsertChunks : indexing.pc # "embedding" /\ AddChunkCall(chunk)
    \/ AddChunkSet
    \/ AddChunkEmbeddingFails
    \/ \E chunkId \in IndexIds : RemoveChunk(chunkId)
    \/ ClearIndex
    \/ \E query \in Texts : SearchCall(query, MaxTopK)
    \/ SearchScan
    \/ SearchEmbeddingFails

IndexSpec == IndexInit /\ [][IndexNext]_vars

-----------------------------------------------------------------------------
(* DocumentChunker: properties *)

CeilDiv(a, b) == (a + b - 1) \div b

StartPositions(cs) == [i \in 1..Len(cs) |-> cs[i].metadata.startPosition]

\* chunkPage has gone through every structural chunk of the current page
PageFinished == pc = "chunkPage" /\ secNo > Len(structuralChunks)

\* every structural chunk of the current page opens with a heading and fits in chunkSize
HeadedSectionsFit ==
    /\ Len(structuralChunks) >= 1
    /\ \A i \in 1..Len(structuralChunks) :
          /\ SectionOf(structuralChunks[i]) # Undefined
          /\ Len(structuralChunks[i].content) <= config.chunkSize

\* C1: when chunkPage has finished a page made of headed sections that all
\* fit in chunkSize, the page's chunks are exactly the sections: one chunk per
\* section, in order, with the section's content and its heading text as
\* sectionName, whatever minChunkSize is.
C1_OneChunkPerSection ==
    (PageFinished /\ HeadedSectionsFit)
    => /\ Len(pageChunks) = Len(structuralChunks)
       /\ \A i \in 1..Len(structuralChunks) :
            /\ pageChunks[i].content = structuralChunks[i].content
            /\ pageChunks[i].sectionName = SectionOf(structuralChunks[i])

\* C2 as stated: with overlap < chunkSize the while loop of slidingWindowChunk
\* runs at most ceil(L / (chunkSize - overlap)) + 1 times on a text of length L.
C2_IterationBound ==
    (pc = "slidingWindowChunk" /\ config.overlap < config.chunkSize)
    => window.iterations
          <= CeilDiv(window.contentLength, config.chunkSize - config.overlap) + 1

\* C2 amended: with overlap < chunkSize the while loop of slidingWindowChunk
\* runs at most L times on a text of length L, and when it has run L times
\* the loop is over.
C2_AtMostLIterations ==
    (pc = "slidingWindowChunk" /\ config.overlap < config.chunkSize)
    => /\ window.iterations <= window.contentLength
       /\ (window.iterations = window.contentLength
              => startPos >= window.contentLength)

\* the loop has run more often than ceil(L / (chunkSize - overlap)) + 1 times
\* on a text longer than chunkSize, and is over
C2_Witness ==
    /\ pc = "slidingWindowChunk"
    /\ config.overlap < config.chunkSize
    /\ window.contentLength > config.chunkSize
    /\ startPos >= window.contentLength
    /\ window.iterations
          > CeilDiv(window.contentLength, config.chunkSize - config.overlap) + 1

HeaderlessLongPage ==
    /\ pc = "slidingWindowChunk"
    /\ Len(structuralChunks) = 1
    /\ SectionOf(structuralChunks[1]) = Undefined
    /\ Len(structuralChunks[1].content) > config.chunkSize
    /\ config.overlap < config.chunkSize

\* C4 as stated: on a headerless page longer than chunkSize, with
\* overlap < chunkSize, each emitted chunk starts at least chunkSize - overlap
\* characters after the chunk emitted before it.
C4_StartsAdvanceByStep ==
    HeaderlessLongPage
    => \A i \in 1..(Len(slidingChunks) - 1) :
          StartPositions(slidingChunks)[i + 1] - StartPositions(slidingChunks)[i]
              >= config.chunkSize - config.overlap

\* C4 amended: on such a page each emitted chunk starts at least one character
\* after the chunk emitted before it, and not before the window start that
\* follows it.
C4_StartsStrictlyIncrease ==
    HeaderlessLongPage
    => /\ \A i \in 1..(Len(slidingChunks) - 1) :
             StartPositions(slidingChunks)[i + 1] >= StartPositions(slidingChunks)[i] + 1
       /\ \A i \in 1..Len(slidingChunks) :
             StartPositions(slidingChunks)[i] < structuralChunks[1].startPos + startPos

\* three chunks of such a page, two of them closer than chunkSize - overlap
C4_Witness ==
    /\ HeaderlessLongPage
    /\ Len(slidingChunks) >= 3
    /\ \E i \in 1..(Len(slidingChunks) - 1) :
          StartPositions(slidingChunks)[i + 1] - StartPositions(slidingChunks)[i]
              < config.chunkSize - config.overlap

\* C5: the chunks collected by chunkDocument carry the chunkIndex values
\* 0, 1, 2, ... in output order across all pages, each id is
\* '{documentId}-chunk-{chunkIndex}', and no two chunks share an id.
C5_GlobalChunkIndex ==
    /\ \A i \in 1..Len(chunks) :
          /\ chunks[i].chunkIndex = i - 1
          /\ chunks[i].id = DocumentId \o "-chunk-" \o ToString(chunks[i].chunkIndex)
    /\ \A i, j \in 1..Len(chunks) : chunks[i].id = chunks[j].id => i = j

\* chunkDocument has returned chunks of two pages
C5_Witness ==
    /\ pc = "done"
    /\ \E i, j \in 1..Len(chunks) :
          /\ chunks[i].pageNumber = 1
          /\ chunks[j].pageNumber = 2
    /\ Len(chunks) >= 3

\* C6: every chunk emitted has charCount >= minChunkSize, and a window is
\* emitted exactly when its trimmed slice has at least minChunkSize characters
\* (shorter slices are dropped).
C6_MinChunkSize ==
    /\ \A i \in 1..Len(chunks) :
          chunks[i].metadata.charCount >= config.minChunkSize
    /\ \A i \in 1..Len(pageChunks) :
          pageChunks[i].metadata.charCount >= config.minChunkSize
    /\ \A i \in 1..Len(slidingChunks) :
          slidingChunks[i].metadata.charCount >= config.minChunkSize
    /\ (window.iterations > 0 /\ window.sliceLen < config.minChunkSize)
          => ~window.emitted

\* a window was dropped for being shorter than minChunkSize after another was emitted
C6_Witness ==
    /\ pc = "slidingWindowChunk"
    /\ window.iterations > 0
    /\ ~window.emitted
    /\ window.sliceLen < config.minChunkSize
    /\ Len(slidingChunks) > 0

-----------------------------------------------------------------------------
(* VectorSearchService: properties *)

\* search has returned the outcome of a scan (the index is still the one scanned)
ScanReturned == search.pc = "returned" /\ search.embedded

\* the index entry behind a returned result
EntryOf(result) == MapGet(embeddings, result.chunk.id)

\* the stored vector is an array of the configured dimension with all components 0
ZeroMagnitude(vector) ==
    /\ vector.defined
    /\ Len(vector.v) = Dimension
    /\ \A i \in 1..Dimension : vector.v[i] = 0

\* C7: the results search returns are in non-increasing order of score and
\* every returned score lies in [0, 1].
C7_SortedUnitScores ==
    search.pc = "returned"
    => /\ \A i \in 1..Len(search.result) : InUnitInterval(search.result[i].score)
       /\ \A i, j \in 1..Len(search.result) :
             i < j => /\ ~search.result[i].score.nan
                      /\ ~search.result[j].score.nan
                      /\ ~LessThan(search.result[i].score, search.result[j].score)

\* C8: a result whose stored vector has zero magnitude has score 0, and no
\* returned score is NaN.
C8_ZeroMagnitudeIsZero ==
    ScanReturned
    => \A i \in 1..Len(search.result) :
          /\ ZeroMagnitude(EntryOf(search.result[i]).vector)
                => search.result[i].score = Zero
          /\ (Len(EntryOf(search.result[i]).vector.v) = Dimension
                => ~search.result[i].score.nan)

\* C9: search returns at most topK results, and exactly
\* min(topK, number of entries) results when the query embedding succeeded.
C9_ExactlyTopK ==
    search.pc = "returned"
    => /\ Len(search.result) <= search.topK
       /\ (search.embedded
             => Len(search.result) = Min(search.topK, Len(embeddings)))

\* the constructor has just returned
Constructed == loading.pc = "constructed"

\* the file the constructor loaded from
LoadedFile == OpenedFile(loading.corpusFile, loading.singleDocFile)

\* an item of the corpus with an id and an embedding of the configured dimension
WellFormedItem(chunkData) ==
    /\ chunkData.embedding.defined
    /\ Len(chunkData.embedding.v) = Dimension

\* a corpus file without malformed entries: every item is well formed, no id
\* occurs twice, and metadata.totalChunks is the number of items
WellFormedCorpus(file) ==
    /\ file.exists /\ file.parses /\ file.hasChunks
    /\ \A i \in 1..Len(file.chunks) : WellFormedItem(file.chunks[i])
    /\ \A i, j \in 1..Len(file.chunks) :
          file.chunks[i].id = file.chunks[j].id => i = j
    /\ file.totalChunks = Len(file.chunks)

\* C12: every entry of the index has a vector whose length is the configured
\* dimension; corpus items and inserts with another length or no vector are
\* not stored.
C12_EntriesHaveDimension ==
    \A i \in 1..Len(embeddings) :
        /\ embeddings[i].vector.defined
        /\ Len(embeddings[i].vector.v) = Dimension

C15_LoadFailsSoft ==
    (Constructed /\ (\/ ~LoadedFile.exists
                     \/ ~LoadedFile.parses
                     \/ ~LoadedFile.hasChunks
                     \/ Len(LoadedFile.chunks) = 0))
    => /\ ~loading.raised
       /\ embeddings = <<>>

\* the constructor has opened a file that is not JSON
C15_Witness ==
    /\ Constructed
    /\ LoadedFile.exists
    /\ ~LoadedFile.parses
    /\ embeddings = <<>>

\* C10: a search called on an empty index has returned [] without raising
\* and without calling the embedder.
C10_EmptyIndexReturnsEmpty ==
    (search.pc \in {"embedding", "returned"} /\ search.sizeAtCall = 0)
    => /\ search.pc = "returned"
       /\ search.result = <<>>
       /\ ~search.embedderCalled
       /\ ~search.raised

\* a search was called on an index emptied by clearIndex or removeChunk, or loaded empty
C10_Witness ==
    /\ search.pc = "returned"
    /\ search.query \in Texts
    /\ search.sizeAtCall = 0
    /\ ~search.embedderCalled
    /\ Len(embeddings) = 0

-----------------------------------------------------------------------------
(* The upload route and the search route *)

\* search(query, 5) in the search route
RouteTopK == 5

\* the documentId of the document uploaded
UploadDocuments == {"d1"}

\* the chunks chunkDocument returns for an uploaded document: ids
\* '{documentId}-chunk-{i}', i = 0, 1, ...
UploadBatches ==
    UNION {{[i \in 1..n |-> [id |-> documentId \o "-chunk-" \o ToString(i - 1),
                             content |-> contents[i]]] :
               documentId \in UploadDocuments, contents \in [1..n -> Texts]} :
           n \in 1..MaxBatch}

\* the module of each route evaluates 'const vectorSearch = new
\* VectorSearchService()': two services, each loading the data files
RouteInit ==
    /\ IdleChunker
    /\ \E dataChunks \in IndexCorpora :
          /\ Construct(DataFile(dataChunks, Len(dataChunks)), Missing)
          /\ uploadEmbeddings
                = loadPrecomputedData(DataFile(dataChunks, Len(dataChunks)),
                                      Missing).embeddings
    /\ search = NoSearch
    /\ adding = NoAdd
    /\ indexing = NoIndexing
    /\ removing = NoRemove
    /\ response = NoResponse

\* processDocumentAsync, step 4: vectorSearch.indexChunks(chunks) of the
\* upload route has its embeddings and stores them in the upload route's service
UploadIndexChunksStore ==
    /\ indexing.pc = "embedding"
    /\ indexing.next > Len(indexing.chunks)
    /\ uploadEmbeddings' = StoreResults(uploadEmbeddings, indexing.chunks,
                                        indexing.results)
    /\ indexing' = [indexing EXCEPT !.pc = "returned", !.before = uploadEmbeddings]
    /\ search' = Settled(search)
    /\ loading' = NoLoad
    /\ removing' = NoRemove
    /\ response' = NoResponse
    /\ UNCHANGED <<embeddings, adding>>
    /\ UNCHANGED chunkerVars

\* the mock results of the catch block of POST; relevanceScore 0.85 and 0.75
fallbackResults ==
    <<[id |-> "fallback-1", relevanceScore |-> Real(1, 289, 400)],
      [id |-> "fallback-2", relevanceScore |-> Real(1, 9, 16)]>>

\* POST of the search route: request.json() rejects (the body is not JSON)
\* or the body is null; the catch block answers with the mock results
PostBodyCannotBeRead ==
    /\ response' = [status |-> 200, results |-> fallbackResults, error |-> ""]
    /\ search' = Settled(search)
    /\ indexing' = Returned(indexing)
    /\ loading' = NoLoad
    /\ removing' = NoRemove
    /\ UNCHANGED <<embeddings, adding, uploadEmbeddings>>
    /\ UNCHANGED chunkerVars

\* POST of the search route: the body has no query or one that is no string
PostInvalidQuery ==
    /\ response' = [status |-> 400, results |-> <<>>, error |-> "Invalid query"]
    /\ search' = Settled(search)
    /\ indexing' = Returned(indexing)
    /\ loading' = NoLoad
    /\ removing' = NoRemove
    /\ UNCHANGED <<embeddings, adding, uploadEmbeddings>>
    /\ UNCHANGED chunkerVars

\* searchResults.map(...): id and relevanceScore of the formatted results
FormattedResults(searchResults) ==
    [i \in 1..Len(searchResults) |->
        [id |-> searchResults[i].chunk.id,
         relevanceScore |-> searchResults[i].score]]

\* POST of the search route once search has returned: the formatted results
\* sorted by relevanceScore with the comparator of search
PostResponses(searchResults) ==
    LET formatted == FormattedResults(searchResults)
        sims == [i \in 1..Len(formatted) |->
                    [chunkId |-> formatted[i].id, score |-> formatted[i].relevanceScore]]
    IN  {[status  |-> 200,
          results |-> [i \in 1..Len(sorted) |->
                          [id |-> sorted[i].chunkId,
                           relevanceScore |-> sorted[i].score]],
          error   |-> ""] : sorted \in SortOutcomes(sims)}

RouteNext ==
    \/ \E batch \in UploadBatches : IndexChunksCall(batch)
    \/ IndexChunksEmbed
    \/ IndexChunksEmbedFails
    \/ UploadIndexChunksStore
    \/ \E query \in Texts : SearchCall(query, RouteTopK)
    \/ SearchScan
    \/ SearchEmbeddingFails
    \/ PostBodyCannotBeRead
    \/ PostInvalidQuery

RouteSpec == RouteInit /\ [][RouteNext]_vars

-----------------------------------------------------------------------------
(* VectorSearchService: properties of the inserts *)

\* no id occurs twice in the Map
UniqueIds(map) == \A i, j \in 1..Len(map) : map[i].id = map[j].id => i = j

\* indexChunks has just stored its results and returned
IndexChunksReturned == indexing.pc = "returned"

\* the positions of the batch whose embedding succeeded
Succeeded == (1..Len(indexing.chunks)) \ indexing.failed

\* the ids of the batch with at least one chunk whose embedding succeeded
StoredIds == {indexing.chunks[i].id : i \in Succeeded}

\* the last chunk of the batch with this id whose embedding succeeded
LastInsert(chunkId) ==
    indexing.chunks[CHOOSE i \in Succeeded :
                       /\ indexing.chunks[i].id = chunkId
                       /\ \A j \in Succeeded :
                             indexing.chunks[j].id = chunkId => j <= i]

\* the entry an insert of this chunk stores
EntryFor(chunk) ==
    [id |-> chunk.id, vector |-> Vector(Embed(chunk.content)), chunk |-> chunk]

\* C11: the index holds at most one entry per chunk id, and when indexChunks
\* has returned, each id it inserted has one entry holding the vector and the
\* payload of the last insert for that id, the entry count having grown only
\* by the ids that were not present before.
C11_OneEntryPerId ==
    /\ UniqueIds(embeddings)
    /\ IndexChunksReturned
        => /\ \A chunkId \in StoredIds :
                 /\ MapHas(embeddings, chunkId)
                 /\ MapGet(embeddings, chunkId) = EntryFor(LastInsert(chunkId))
           /\ Len(embeddings)
                 = Len(indexing.before)
                     + Cardinality({chunkId \in StoredIds :
                                       ~MapHas(indexing.before, chunkId)})

\* addChunk on an id that is present keeps the entry count and replaces the
\* entry by the vector and payload of the chunk added
AddChunkOverwrites ==
    [][(adding.pc = "embedding" /\ adding'.pc = "idle" /\ embeddings' # embeddings)
         => /\ MapHas(embeddings', adding.chunk.id)
            /\ MapGet(embeddings', adding.chunk.id) = EntryFor(adding.chunk)
            /\ UniqueIds(embeddings')
            /\ Len(embeddings')
                  = Len(embeddings)
                      + (IF MapHas(embeddings, adding.chunk.id) THEN 0 ELSE 1)]_vars

\* the chunk ids of the results of generateEmbeddings, in order
ResultIds == [i \in 1..Len(indexing.results) |-> indexing.results[i].chunkId]

\* the ids of the chunks of the batch whose embedding succeeded, in input order
RECURSIVE SucceededIds(_)
SucceededIds(i) ==
    IF i > Len(indexing.chunks) THEN <<>>
    ELSE IF i \in indexing.failed THEN SucceededIds(i + 1)
    ELSE <<indexing.chunks[i].id>> \o SucceededIds(i + 1)

\* C13: when indexChunks has returned from a batch in which some embedding
\* failed, the results of generateEmbeddings are those of the chunks whose
\* embedding succeeded, in input order; every such chunk is in the index (the
\* last one for each id with its vector and payload); and for a failed chunk
\* whose id no succeeded chunk shares, the index state for its id is as it was.
C13_FailedChunksSkipped ==
    (IndexChunksReturned /\ indexing.failed # {})
    => /\ ResultIds = SucceededIds(1)
       /\ \A i \in Succeeded :
             /\ MapHas(embeddings, indexing.chunks[i].id)
             /\ MapGet(embeddings, indexing.chunks[i].id)
                   = EntryFor(LastInsert(indexing.chunks[i].id))
       /\ \A i \in indexing.failed :
             LET chunkId == indexing.chunks[i].id
             IN  chunkId \notin StoredIds
                 => /\ MapHas(embeddings, chunkId) = MapHas(indexing.before, chunkId)
                    /\ MapHas(embeddings, chunkId)
                          => MapGet(embeddings, chunkId)
                                = MapGet(indexing.before, chunkId)

\* the same for the batches in which no id occurs twice
C13_DistinctIdsBatch ==
    (\A i, j \in 1..Len(indexing.chunks) :
        indexing.chunks[i].id = indexing.chunks[j].id => i = j)
    => C13_FailedChunksSkipped

\* C17: when search has returned the outcome of a scan, every returned chunk
\* is in the index, is the payload of its entry, and carries the score and
\* the distance of the vector stored there.
C17_ScanSeesOneIndex ==
    ScanReturned
    => \A i \in 1..Len(search.result) :
          LET result == search.result[i]
          IN  /\ MapHas(embeddings, result.chunk.id)
              /\ EntryOf(result).chunk = result.chunk
              /\ result.score
                    = MathMax0(cosineSimilarity(Embed(search.query),
                                                EntryOf(result).vector.v))
              /\ result.distance
                    = calculateDistance(Embed(search.query),
                                        EntryOf(result).vector.v)

\* a search has returned two results while an indexChunks call with a result
\* to store is waiting for the next embedding
C17_Witness ==
    /\ ScanReturned
    /\ Len(search.result) = 2
    /\ indexing.pc = "embedding"
    /\ indexing.results # <<>>
    /\ indexing.next <= Len(indexing.chunks)

\* search has returned after the embedding of the query failed or the scoring
\* of a stored entry threw
SearchFailed ==
    /\ search.pc = "returned"
    /\ search.embedderCalled
    /\ ~search.embedded \/ ScanThrows(embeddings)

\* C18: search never raises; when the embedding of the query fails or the
\* scoring of a stored entry throws, search returns the empty list; and the
\* step in which search returns leaves the index as it was.
C18_SearchNeverRaises ==
    /\ [](/\ ~search.raised
          /\ SearchFailed => search.result = <<>>)
    /\ [][(search.pc = "embedding" /\ search'.pc = "returned")
             => embeddings' = embeddings]_vars

\* search has returned [] because an entry without a vector made the scoring throw
C18_Witness ==
    /\ search.pc = "returned"
    /\ search.embedded
    /\ ScanThrows(embeddings)
    /\ Len(embeddings) >= 2
    /\ search.topK >= 1
    /\ search.result = <<>>

-----------------------------------------------------------------------------
(* DocumentChunker: properties of construction and of failure *)

\* C19: the configuration of a constructed DocumentChunker has
\* overlap < chunkSize and a window step chunkSize - overlap of at least 1.
C19_InvalidConfigRejected ==
    /\ config.overlap < config.chunkSize
    /\ config.chunkSize - config.overlap >= 1

\* the numbers of the pages whose text is empty
EmptyPages == {ocrResults[i].pageNumber : i \in {j \in 1..Len(ocrResults) :
                                                   ocrResults[j].text = <<>>}}

\* what chunkDocument still has to do: pages left, position in the page
\* loop, sections left, position in the section loop, characters left
Remaining ==
    LET pagesLeft == Len(ocrResults) + 1 - pageNo
        sectionsLeft == Len(structuralChunks) + 1 - secNo
    IN  IF pc = "done" THEN <<0, 0, 0, 0, 0>>
        ELSE IF pc = "chunkDocument" THEN <<pagesLeft, 2, 0, 0, 0>>
        ELSE IF pc = "chunkPage" THEN <<pagesLeft, 1, sectionsLeft, 2, 0>>
        ELSE <<pagesLeft, 1, sectionsLeft, 1,
               Max(0, Len(structuralChunks[secNo].content) - startPos)>>

\* lexicographic order on tuples of the same length
LexLess(a, b) ==
    \E k \in 1..Len(a) : a[k] < b[k] /\ \A j \in 1..(k - 1) : a[j] = b[j]

\* some statement of chunkDocument can run: no step is left without a successor
CanStep ==
    \/ pc = "chunkDocument"
    \/ pc = "chunkPage" /\ secNo <= Len(structuralChunks) + 1
    \/ pc = "slidingWindowChunk" /\ secNo <= Len(structuralChunks)

\* C20: chunkDocument never raises, whatever the page texts are: until it has
\* returned there is a statement to run, and every step brings the return
\* closer; and no chunk collected for the page in progress or for the
\* document belongs to a page whose text is empty.
C20_NeverRaisesEmptyPage ==
    /\ [](pc # "done" => CanStep)
    /\ [][LexLess(Remaining', Remaining)]_vars
    /\ [](/\ \A i \in 1..Len(chunks) : chunks[i].pageNumber \notin EmptyPages
          /\ \A i \in 1..Len(pageChunks) :
                pageChunks[i].pageNumber \notin EmptyPages
          /\ (pc = "chunkDocument" /\ pageNo > 1
                 /\ ocrResults[pageNo - 1].text = <<>>)
                => pageChunks = <<>>)

\* chunkDocument has returned the chunks of a document whose first page is
\* empty and whose second page is not, with minChunkSize = 0
C20_Witness ==
    /\ pc = "done"
    /\ Len(ocrResults) = 2
    /\ ocrResults[1].text = <<>>
    /\ config.minChunkSize = 0
    /\ Len(chunks) >= 1

-----------------------------------------------------------------------------
(* Routes: properties *)

\* C16: every chunk the upload pipeline has indexed is an entry of the index
\* the search route searches, and a search whose topK covers that index
\* returns it among its results.
C16_UploadsAreSearched ==
    /\ \A i \in 1..Len(uploadEmbeddings) :
          MapHas(embeddings, uploadEmbeddings[i].id)
    /\ (ScanReturned /\ Len(embeddings) <= search.topK)
          => \A i \in 1..Len(uploadEmbeddings) :
                \E j \in 1..Len(search.result) :
                   search.result[j].chunk.id = uploadEmbeddings[i].id

-----------------------------------------------------------------------------
(* search over an index of up to MaxRanked entries: the ranking *)

RankIds == <<"c1", "c2", "c3", "c4", "c5", "c6">>

\* stored vectors whose scores are NaN, or differ, or tie
RankEmbeddings ==
    { Vector([i \in 1..Dimension |-> 0]),
      Vector([i \in 1..Dimension |-> IF i = 1 THEN 1 ELSE 0]),
      Vector([i \in 1..Dimension |-> 1]) }

\* data.chunks of a corpus file with n items of distinct ids
RankCorpora ==
    UNION {{[i \in 1..n |-> [id |-> RankIds[i], content |-> "q1",
                              embedding |-> e[i]]] :
               e \in [1..n -> RankEmbeddings]} : n \in 0..MaxRanked}

\* new VectorSearchService() on such a corpus file
RankInit ==
    /\ IdleChunker
    /\ \E dataChunks \in RankCorpora :
          Construct(DataFile(dataChunks, Len(dataChunks)), Missing)
    /\ search = NoSearch
    /\ adding = NoAdd
    /\ indexing = NoIndexing
    /\ uploadEmbeddings = <<>>
    /\ removing = NoRemove
    /\ response = NoResponse

RankNext ==
    \/ \E query \in Texts : SearchCall(query, MaxRanked)
    \/ SearchScan
    \/ SearchEmbeddingFails

RankSpec == RankInit /\ [][RankNext]_vars

\* the place of an entry in the iteration order of this.embeddings
IterationIndex(chunkId) ==
    CHOOSE i \in 1..Len(embeddings) : embeddings[i].id = chunkId

\* two scores that are numbers and equal
EqualScore(x, y) == ~x.nan /\ ~y.nan /\ ~LessThan(x, y) /\ ~LessThan(y, x)

StableWithoutNaN ==
    (ScanReturned /\ \A i \in 1..Len(search.result) : ~search.result[i].score.nan
                  /\ Len(search.result) = Len(embeddings))
    => \A i, j \in 1..Len(search.result) :
          (i < j /\ EqualScore(search.result[i].score, search.result[j].score))
             => IterationIndex(search.result[i].chunk.id)
                  < IterationIndex(search.result[j].chunk.id)
-----------------------------------------------------------------------------
(* VectorSearchService: removeChunk *)

\* removeChunk has just returned
RemoveChunkReturned == removing.pc = "returned"

\* map without its k-th entry
WithoutEntry(map, k) == SubSeq(map, 1, k - 1) \o SubSeq(map, k + 1, Len(map))

\* C22: removeChunk(chunkId) returns true exactly when the index held an
\* entry of that id; afterwards the index holds no entry of that id and every
\* other entry as before, and a search returns only chunks that are in the index.
C22_RemoveChunk ==
    /\ [][RemoveChunkReturned'
            => /\ removing'.returned
                    = (\E k \in 1..Len(embeddings) :
                          embeddings[k].id = removing'.chunkId)
               /\ \A k \in 1..Len(embeddings') :
                     embeddings'[k].id # removing'.chunkId
               /\ IF removing'.returned
                  THEN \E k \in 1..Len(embeddings) :
                          /\ embeddings[k].id = removing'.chunkId
                          /\ embeddings' = WithoutEntry(embeddings, k)
                  ELSE embeddings' = embeddings]_vars
    /\ [](ScanReturned
            => \A i \in 1..Len(search.result) :
                  \E k \in 1..Len(embeddings) :
                     /\ embeddings[k].id = search.result[i].chunk.id
                     /\ embeddings[k].chunk = search.result[i].chunk)

\* removeChunk has removed one of two entries
C22_Witness ==
    /\ RemoveChunkReturned
    /\ removing.returned
    /\ Len(embeddings) = 1
    /\ embeddings[1].id # removing.chunkId
-----------------------------------------------------------------------------
(* DocumentChunker: chunkDocument as a function of its arguments *)

\* slidingWindowChunk: the while loop from start position sp on
RECURSIVE SlidingLoop(_, _, _, _, _, _, _, _)
SlidingLoop(content, pageNumber, sectionName, globalStartPos, cfg, sp, idx, acc) ==
    IF sp >= Len(content) THEN acc
    ELSE LET endPos == WindowEnd(content, sp, cfg)
             chunkContent == Trim(Substring(content, sp, endPos))
             emit == EmitsWindow(chunkContent, cfg)
         IN  SlidingLoop(content, pageNumber, sectionName, globalStartPos, cfg,
                         NextStart(sp, endPos, cfg),
                         IF emit THEN idx + 1 ELSE idx,
                         IF emit
                         THEN Append(acc,
                                 createChunk(chunkContent, DocumentId, pageNumber, idx,
                                             sectionName,
                                             GlobalPosition(globalStartPos, sp),
                                             GlobalPosition(globalStartPos, endPos)))
                         ELSE acc)

slidingWindowChunk(content, pageNumber, startChunkIndex, sectionName, globalStartPos, cfg) ==
    SlidingLoop(content, pageNumber, sectionName, globalStartPos, cfg,
                0, startChunkIndex, <<>>)

\* chunkPage: the loop over the structural chunks from the i-th on
RECURSIVE PageLoop(_, _, _, _, _, _)
PageLoop(sections, pageNumber, cfg, i, idx, acc) ==
    IF i > Len(sections) THEN acc
    ELSE LET structuralChunk == sections[i]
             produced ==
                IF SingleChunk(structuralChunk, cfg)
                THEN <<createChunk(structuralChunk.content, DocumentId, pageNumber,
                                   idx, SectionOf(structuralChunk),
                                   structuralChunk.startPos, structuralChunk.endPos)>>
                ELSE slidingWindowChunk(structuralChunk.content, pageNumber, idx,
                                        SectionOf(structuralChunk),
                                        structuralChunk.startPos, cfg)
         IN  PageLoop(sections, pageNumber, cfg, i + 1, idx + Len(produced),
                      acc \o produced)

chunkPage(page, startChunkIndex, cfg) ==
    PageLoop(splitByStructure(page.text), page.pageNumber, cfg, 1,
             startChunkIndex, <<>>)

\* chunkDocument: the loop over the pages from the p-th on
RECURSIVE DocumentLoop(_, _, _, _)
DocumentLoop(pages, cfg, p, acc) ==
    IF p > Len(pages) THEN acc
    ELSE DocumentLoop(pages, cfg, p + 1, acc \o chunkPage(pages[p], Len(acc), cfg))

chunkDocument(pages, cfg) == DocumentLoop(pages, cfg, 1, <<>>)

\* C23: the chunks a run of chunkDocument returns are a function of the page
\* texts, the documentId and the configuration: every run on the same
\* arguments returns the same sequence of chunks.
C23_Deterministic ==
    pc = "done" => chunks = chunkDocument(ocrResults, config)

\* a run over several pages that used the sliding window has returned
C23_Witness ==
    /\ pc = "done"
    /\ Len(ocrResults) >= 2
    /\ Len(chunks) >= 3
    /\ \E i \in 1..Len(chunks) : chunks[i].chunkIndex # 0 /\ chunks[i].pageNumber = 1
    /\ \E i \in 1..Len(chunks) : chunks[i].pageNumber = 2
-----------------------------------------------------------------------------
(* DocumentChunker: the tail of slidingWindowChunk *)

\* the position at which the section under the sliding window ends
SectionEnd ==
    GlobalPosition(structuralChunks[secNo].startPos,
                   Len(structuralChunks[secNo].content))

\* the span of chunk b lies inside the span of chunk a
SpanInside(b, a) ==
    /\ b.metadata.startPosition >= a.metadata.startPosition
    /\ b.metadata.endPosition <= a.metadata.endPosition

\* C24: of the chunks slidingWindowChunk emits for a section, at most one
\* ends at the end of the section, and no chunk's span lies inside the span
\* of the chunk emitted just before it.
C24_NoChunkAfterSectionEnd ==
    pc = "slidingWindowChunk"
    => /\ Cardinality({i \in 1..Len(slidingChunks) :
                          slidingChunks[i].metadata.endPosition = SectionEnd}) <= 1
       /\ \A i \in 1..(Len(slidingChunks) - 1) :
             ~SpanInside(slidingChunks[i + 1], slidingChunks[i])
-----------------------------------------------------------------------------
(* VectorSearchService: payload and vector of an inserted entry *)

\* the vector of the entry is the embedding of the content of its payload
VectorOfPayload(entry) == entry.vector = Vector(Embed(entry.chunk.content))

\* C25: every entry indexChunks has inserted pairs a chunk with the embedding
\* of that chunk's content, and for an id the batch holds twice both come
\* from the later chunk.
C25_PayloadMatchesVector ==
    IndexChunksReturned
    => \A chunkId \in StoredIds :
          /\ VectorOfPayload(MapGet(embeddings, chunkId))
          /\ MapGet(embeddings, chunkId).chunk = LastInsert(chunkId)
-----------------------------------------------------------------------------
(* VectorSearchService: indexChunks against a search in between *)

\* a step of generateEmbeddings inside a running indexChunks
EmbeddingStep ==
    /\ indexing.pc = "embedding"
    /\ indexing'.pc = "embedding"
    /\ indexing' # indexing

\* the step in which indexChunks stores its results and returns
StoreStep == indexing.pc = "embedding" /\ indexing'.pc = "returned"

\* C26: while indexChunks computes the embeddings of its batch it inserts
\* nothing, and it inserts every embedded chunk in the one step in which it
\* returns; a search that returns in between has scanned an index that this
\* call has not touched.
C26_InsertsAtOnce ==
    [][/\ EmbeddingStep => embeddings' = embeddings
       /\ StoreStep
            => /\ indexing'.results = indexing.results
               /\ \A i \in 1..Len(indexing.results) :
                     /\ MapHas(embeddings', indexing.results[i].chunkId)
                     /\ \E j \in 1..Len(indexing.results) :
                           /\ indexing.results[j].chunkId = indexing.results[i].chunkId
                           /\ MapGet(embeddings', indexing.results[i].chunkId).vector
                                 = Vector(indexing.results[j].vector)
               /\ \A k \in 1..Len(embeddings') :
                     \/ \E i \in 1..Len(indexing.results) :
                           indexing.results[i].chunkId = embeddings'[k].id
                     \/ \E m \in 1..Len(embeddings) : embeddings[m] = embeddings'[k]
       /\ (indexing.pc = "embedding" /\ search'.pc = "returned" /\ search' # search)
            => /\ embeddings' = embeddings
               /\ indexing' = indexing]_vars

\* a search has returned while indexChunks holds the embedding of a chunk
\* that is not in the index yet
C26_Witness ==
    /\ ScanReturned
    /\ indexing.pc = "embedding"
    /\ \E i \in 1..Len(indexing.results) :
          ~MapHas(embeddings, indexing.results[i].chunkId)
    /\ Len(indexing.results) = Len(indexing.chunks)
    /\ Len(indexing.chunks) = MaxBatch
-----------------------------------------------------------------------------
(* DocumentChunker: the sections of splitByStructure *)

\* chunkPage holds the sections of the page it is working on
PageSplit == pc \in {"chunkPage", "slidingWindowChunk"}

PageText == ocrResults[pageNo].text

\* the indices of the lines of the page that are headings, in order
HeadingLines ==
    LET lines == Split(PageText)
    IN  SelectSeq([i \in 1..Len(lines) |-> i],
                  LAMBDA i : HeaderMatch(lines[i]) # NoMatch)

\* the character offset in the page text at which its i-th line begins
RECURSIVE LineOffset(_, _)
LineOffset(lines, i) ==
    IF i = 1 THEN 0 ELSE LineOffset(lines, i - 1) + Len(lines[i - 1]) + 1

\* the number of sections that no heading opened (the text before the first
\* heading, or the whole page)
Unheaded == Len(structuralChunks) - Len(HeadingLines)

\* the sections follow the headings one to one and carry their text as name
SectionNamesAreHeadings ==
    PageSplit
    => /\ Unheaded \in {0, 1}
       /\ \A k \in 1..Len(structuralChunks) :
             SectionOf(structuralChunks[k])
                = IF k <= Unheaded THEN Undefined
                  ELSE Trim(HeaderMatch(Split(PageText)[HeadingLines[k - Unheaded]]))

\* the section of a heading starts at the offset of its heading line
SectionStartsAtHeading ==
    PageSplit
    => \A k \in (Unheaded + 1)..Len(structuralChunks) :
          structuralChunks[k].startPos
             = LineOffset(Split(PageText), HeadingLines[k - Unheaded])

\* the offsets of a section lie in the page text
SectionOffsetsInPage ==
    PageSplit
    => \A k \in 1..Len(structuralChunks) :
          /\ 0 <= structuralChunks[k].startPos
          /\ structuralChunks[k].startPos <= structuralChunks[k].endPos
          /\ structuralChunks[k].endPos <= Len(PageText)

\* C27: every section of splitByStructure is named by the heading line that
\* opened it (no name before the first heading or without one), starts at the
\* offset of that heading line, and has 0 <= startPos <= endPos <= length of
\* the page text.
C27_SectionsOfHeadings ==
    /\ SectionNamesAreHeadings
    /\ SectionStartsAtHeading
    /\ SectionOffsetsInPage
-----------------------------------------------------------------------------
(* DocumentChunker: validateChunk, mergeSmallChunks, mergeChunkGroup *)

\* the least wordCount of a chunk that validateChunk accepts
MinWordCount == 10

validateChunk(chunk, cfg) ==
    /\ Len(chunk.content) >= cfg.minChunkSize
    /\ Len(chunk.content) <= cfg.maxChunkSize
    /\ chunk.metadata.wordCount >= MinWordCount

\* chunks.map(c => c.content).join('\n\n')
RECURSIVE JoinContents(_)
JoinContents(group) ==
    IF group = <<>> THEN <<>>
    ELSE IF Len(group) = 1 THEN group[1].content
    ELSE group[1].content \o <<"\n", "\n">> \o JoinContents(Tail(group))

mergeChunkGroup(group) ==
    IF Len(group) = 1 THEN group[1]
    ELSE LET firstChunk == group[1]
             lastChunk == group[Len(group)]
             mergedContent == JoinContents(group)
         IN  [id          |-> firstChunk.metadata.documentId \o "-merged-"
                                 \o ToString(firstChunk.chunkIndex) \o "-"
                                 \o ToString(lastChunk.chunkIndex),
              content     |-> mergedContent,
              sectionName |-> firstChunk.sectionName,
              pageNumber  |-> firstChunk.pageNumber,
              chunkIndex  |-> firstChunk.chunkIndex,
              metadata    |-> [documentId    |-> firstChunk.metadata.documentId,
                               startPosition |-> firstChunk.metadata.startPosition,
                               endPosition   |-> lastChunk.metadata.endPosition,
                               wordCount     |-> WordCount(mergedContent),
                               charCount     |-> Len(mergedContent)]]

\* a content of two words and one of MinWordCount words
ShortContent == <<"a", "a", " ", "a">>
LongContent == [i \in 1..(2 * MinWordCount - 1) |-> IF i % 2 = 1 THEN "a" ELSE " "]

\* configurations under which LongContent passes or is too long
MergeConfigs ==
    [chunkSize    : {MaxChunkSize},
     overlap      : {0},
     minChunkSize : {0, MaxMinChunkSize + 1},
     maxChunkSize : {MaxChunkSize, 2 * MinWordCount}]

\* the offset in its page of the i-th chunk: the lengths of the chunks of
\* the same page before it
RECURSIVE PageOffset(_, _, _)
PageOffset(contents, pages, i) ==
    IF i = 1 \/ pages[i - 1] # pages[i] THEN 0
    ELSE PageOffset(contents, pages, i - 1) + Len(contents[i - 1])

\* chunks as chunkDocument returns them: indexed 0, 1, ... over pages 1 and 2,
\* with offsets relative to their page
MergeInputs ==
    UNION {{[i \in 1..n |->
               createChunk(contents[i], DocumentId, pages[i], i - 1, Undefined,
                           PageOffset(contents, pages, i),
                           PageOffset(contents, pages, i) + Len(contents[i]))] :
              contents \in [1..n -> {ShortContent, LongContent}],
              pages \in {q \in [1..n -> 1..2] :
                            \A i \in 1..(n - 1) : q[i] <= q[i + 1]}} :
           n \in 0..MaxMerge}

\* mergeSmallChunks(chunks) is called
MergeInit ==
    /\ config \in MergeConfigs
    /\ chunks \in MergeInputs
    /\ pc = "mergeSmallChunks"
    /\ mergeNo = 1
    /\ mergedChunks = <<>>
    /\ currentMerge = <<>>
    /\ ocrResults = <<>>
    /\ globalChunkIndex = 0
    /\ pageNo = 1
    /\ pageChunks = <<>>
    /\ structuralChunks = <<>>
    /\ secNo = 1
    /\ chunkIndex = 0
    /\ slidingChunks = <<>>
    /\ swChunkIndex = 0
    /\ startPos = 0
    /\ window = NoWindow
    /\ embeddings = <<>>
    /\ search = NoSearch
    /\ adding = NoAdd
    /\ loading = NoLoad
    /\ indexing = NoIndexing
    /\ uploadEmbeddings = <<>>
    /\ removing = NoRemove
    /\ response = NoResponse

\* mergeSmallChunks: one turn of the for loop
MergeStep ==
    /\ pc = "mergeSmallChunks"
    /\ mergeNo <= Len(chunks)
    /\ LET chunk == chunks[mergeNo]
       IN  IF validateChunk(chunk, config)
           THEN /\ mergedChunks' =
                     Append(IF Len(currentMerge) > 0
                            THEN Append(mergedChunks, mergeChunkGroup(currentMerge))
                            ELSE mergedChunks,
                            chunk)
                /\ currentMerge' = <<>>
           ELSE /\ currentMerge' = Append(currentMerge, chunk)
                /\ UNCHANGED mergedChunks
    /\ mergeNo' = mergeNo + 1
    /\ UNCHANGED searchVars
    /\ UNCHANGED <<config, ocrResults, pc, chunks, globalChunkIndex, pageNo,
                   pageChunks, structuralChunks, secNo, chunkIndex,
                   slidingChunks, swChunkIndex, startPos, window>>

\* mergeSmallChunks: "Handle remaining chunks" and the return
MergeReturn ==
    /\ pc = "mergeSmallChunks"
    /\ mergeNo > Len(chunks)
    /\ mergedChunks' = IF Len(currentMerge) > 0
                       THEN Append(mergedChunks, mergeChunkGroup(currentMerge))
                       ELSE mergedChunks
    /\ pc' = "merged"
    /\ UNCHANGED searchVars
    /\ UNCHANGED <<config, ocrResults, chunks, globalChunkIndex, pageNo,
                   pageChunks, structuralChunks, secNo, chunkIndex,
                   slidingChunks, swChunkIndex, startPos, window,
                   mergeNo, currentMerge>>

MergeNext == MergeStep \/ MergeReturn

MergeSpec == MergeInit /\ [][MergeNext]_vars

\* the i-th chunk given to mergeSmallChunks fails validateChunk
FailsValidation(i) == ~validateChunk(chunks[i], config)

\* a..b is a maximal run of consecutive chunks that fail validateChunk
MaximalRun(a, b) ==
    /\ a <= b
    /\ \A i \in a..b : FailsValidation(i)
    /\ a = 1 \/ ~FailsValidation(a - 1)
    /\ b = Len(chunks) \/ ~FailsValidation(b + 1)

\* what the output is made of: each valid chunk and each maximal run
OutputUnits ==
    {<<i, i>> : i \in {j \in 1..Len(chunks) : ~FailsValidation(j)}}
        \cup {u \in (1..Len(chunks)) \X (1..Len(chunks)) : MaximalRun(u[1], u[2])}

\* the k-th of them in the order of the chunks
OutputUnit(k) ==
    CHOOSE u \in OutputUnits :
        Cardinality({v \in OutputUnits : v[1] < u[1]}) = k - 1

\* C28: mergeSmallChunks returns the valid chunks unchanged and in order, and
\* in place of each maximal run of chunks that fail validateChunk one chunk
\* whose id names the first and the last chunkIndex of the run, whose content
\* is the contents of the run joined in order, and whose offsets go from the
\* least start to the greatest end of the run.
C28_RunsMerged ==
    pc = "merged"
    => /\ Len(mergedChunks) = Cardinality(OutputUnits)
       /\ \A k \in 1..Len(mergedChunks) :
             LET a == OutputUnit(k)[1]
                 b == OutputUnit(k)[2]
                 merged == mergedChunks[k]
             IN  IF ~FailsValidation(a)
                 THEN merged = chunks[a]
                 ELSE /\ merged.id = DocumentId \o "-merged-"
                                        \o ToString(chunks[a].chunkIndex) \o "-"
                                        \o ToString(chunks[b].chunkIndex)
                      /\ merged.content = JoinContents(SubSeq(chunks, a, b))
                      /\ \A i \in a..b :
                            /\ merged.metadata.startPosition
                                  <= chunks[i].metadata.startPosition
                            /\ merged.metadata.endPosition
                                  >= chunks[i].metadata.endPosition
                      /\ \E i \in a..b : merged.metadata.startPosition
                                            = chunks[i].metadata.startPosition
                      /\ \E i \in a..b : merged.metadata.endPosition
                                            = chunks[i].metadata.endPosition

\* the same for the runs of two chunks or more
RunsOfSeveralMerged ==
    pc = "merged"
    => /\ Len(mergedChunks) = Cardinality(OutputUnits)
       /\ \A k \in 1..Len(mergedChunks) :
             LET a == OutputUnit(k)[1]
                 b == OutputUnit(k)[2]
                 merged == mergedChunks[k]
             IN  IF a = b
                 THEN merged = chunks[a]
                 ELSE /\ merged.id = DocumentId \o "-merged-"
                                        \o ToString(chunks[a].chunkIndex) \o "-"
                                        \o ToString(chunks[b].chunkIndex)
                      /\ merged.content = JoinContents(SubSeq(chunks, a, b))
                      /\ merged.metadata.startPosition
                            = chunks[a].metadata.startPosition
                      /\ merged.metadata.endPosition
                            = chunks[b].metadata.endPosition
                      /\ chunks[a].pageNumber = chunks[b].pageNumber
                            => \A i \in a..b :
                                  /\ merged.metadata.startPosition
                                        <= chunks[i].metadata.startPosition
                                  /\ merged.metadata.endPosition
                                        >= chunks[i].metadata.endPosition
-----------------------------------------------------------------------------
(* VectorSearchService: the order of the data sources *)

\* the file is there, is JSON and has chunks
Loadable(file) ==
    file.exists /\ file.parses /\ file.hasChunks /\ Len(file.chunks) > 0

\* the file is not there or is not JSON
CannotBeLoaded(file) == ~file.exists \/ ~file.parses

\* C29: the constructor populates the index from the corpus file when that
\* file loads, and from the single-document file when the corpus file cannot
\* be loaded and the single-document file is valid.
C29_FirstSourceThatLoads ==
    Constructed
    => /\ Loadable(loading.corpusFile)
            => embeddings = LoadChunks(<<>>, loading.corpusFile.chunks)
       /\ (CannotBeLoaded(loading.corpusFile) /\ Loadable(loading.singleDocFile))
            => embeddings = LoadChunks(<<>>, loading.singleDocFile.chunks)

\* the same where the corpus file does not exist
FallsBackWhenMissing ==
    (Constructed /\ ~loading.corpusFile.exists /\ Loadable(loading.singleDocFile))
    => embeddings = LoadChunks(<<>>, loading.singleDocFile.chunks)
-----------------------------------------------------------------------------
(* the search endpoint *)

\* every result of the response is a chunk of the index of the search route
ResultsInIndex(resp) ==
    \A i \in 1..Len(resp.results) : MapHas(embeddings, resp.results[i].id)

\* C30: every result the search endpoint returns is a chunk that is in the
\* index; a request that cannot be processed is answered with no results or
\* with an error.
C30_ResultsAreInIndex ==
    /\ ResultsInIndex(response)
    /\ response.status # 0 => (response.results = <<>> \/ response.error # "")
    /\ search.pc = "returned"
         => \A resp \in PostResponses(search.result) : ResultsInIndex(resp)

\* the same for the requests that reach search
SearchedResultsInIndex ==
    search.pc = "returned"
    => \A resp \in PostResponses(search.result) : ResultsInIndex(resp)
====
